---- MODULE Spec2Model ----
(***************************************************************************)
(* The OCR ledger of the web application: process_attendance              *)
(* (src/web/routers/api.py) and the two services it calls,                *)
(* match_and_store_scores and mark_attendance_from_scores                 *)
(* (src/web/services/ocr.py), over the tables ocr_event_data,             *)
(* ocr_player_mapping (src/web/ocr_models.py) and attendance_records      *)
(* (src/web/models.py).                                                   *)
(*                                                                         *)
(* Strings the code splits, joins or rewrites (event names, session ids,  *)
(* the verified_sessions column) are sequences of characters; a run of    *)
(* digits produced by strftime is one character.  A datetime is           *)
(* <<day, second of the day>>.  Python's None is the value None for the   *)
(* optional integers and NoFid for the optional player_fid column.        *)
(***************************************************************************)
EXTENDS Integers, Sequences, FiniteSets, TLC

\* ------------------------------------------------------------------ bounds
MaxUploads == 2      \* uploads handled in one behaviour of Spec
MaxSessions == 7     \* uploads handled in one behaviour of SpecConsensus
MaxBatch == 3        \* uploads of one batch of SpecOrder
MaxRecords == 3      \* detected records of one run of SpecDedup
MaxRanked == 3       \* records of one list of SpecRanks
MaxImages == 2       \* images of one upload of SpecFaults
MaxTexts == 3        \* detections of one image of SpecExtract

\* --------------------------------------------------------- program values
None == -1
NoFid == "NULL"
UNMATCHED_FID == "0000000000"
damage_tolerance == 1000

\* ----------------------------------------------------------- input domains
Days == {1, 2}
Secs == {0, 1}
DateTimes == {<<1, 0>>, <<1, 1>>, <<2, 0>>}
NoDate == <<0, 0>>                    \* the event_date form field left out
PlainEvent == <<"A", " ", "B">>
CommaEvent == <<"A", ",", "B">>
EventNames == {PlainEvent, CommaEvent}
DEFAULT_EVENT_TYPE == "Bear Trap"
Foo == [tag |-> "DOA", nick |-> "Foo"]
Bar == [tag |-> "DOA", nick |-> "Bar"]
Rankings == {None, 1, 2}
DamagePoints == {None, 0, 1000, 1800, 2600}
DetA == [confidence |-> 60, image_source |-> "a.png"]
DetB == [confidence |-> 90, image_source |-> "b.png"]
AllUsers == { [fid |-> 101, nickname |-> [tag |-> "DOA", nick |-> "foo"], alliance |-> "1"] }

\* one detected player: the dictionaries extract_player_scores_from_ocr returns
Detected(name, ranking, damage, det) ==
    [player_name |-> name, ranking |-> ranking, damage_points |-> damage, det |-> det]
Base == Detected(Foo, 1, 1000, DetA)

UploadForm(event_name, event_date, all_player_data) ==
    [event_name |-> event_name, event_date |-> event_date,
     all_player_data |-> all_player_data]

\* uploads that vary the event, the event date and the session
KeyUploads ==
    {UploadForm(e, d, <<Base>>) : e \in EventNames, d \in DateTimes \cup {NoDate}}
\* uploads of one session that vary what was read for the player
ValueUploads ==
    {UploadForm(PlainEvent, <<1, 1>>, <<Detected(Foo, r, p, DetA)>>) :
        r \in Rankings, p \in DamagePoints}
\* uploads of several detections: a second player, and one player read twice
ListUploads ==
    {UploadForm(PlainEvent, <<1, 1>>, l) :
        l \in {<<Detected(Foo, 1, 1000, DetB)>>,
               <<Base, Detected(Bar, 2, 1800, DetA)>>,
               <<Base, Detected(Foo, 2, 2600, DetB)>>}}
Uploads == KeyUploads \cup ValueUploads \cup ListUploads

\* SpecOrder: what the sessions of one batch read for the player
OrderObservations ==
    {Detected(Foo, r, p, DetA) : r \in {None, 1}, p \in {1000, 1800, 2600}}
        \cup {Detected(Foo, 2, 1000, DetA)}
\* SpecConcurrent: the uploads two requests bring
ConcurrentUploads ==
    {UploadForm(PlainEvent, d, <<Detected(Foo, 1, p, DetA)>>) :
        d \in {<<1, 0>>, <<1, 1>>}, p \in {1000, 1800, 2600}}

\* SpecConsensus: many sessions of one event day, agreeing observations
ManySecs == 0..6
ConsensusUploads ==
    {UploadForm(PlainEvent, <<1, s>>, <<Base>>) : s \in ManySecs}

\* ----------------------------------------------------------------- helpers

Truthy(x) == x # None /\ x # 0
OrZero(x) == IF Truthy(x) THEN x ELSE 0
Min(a, b) == IF a <= b THEN a ELSE b
Abs(x) == IF x < 0 THEN -x ELSE x

FidStr(fid) == CASE fid = 101 -> "101" [] fid = 102 -> "102" [] OTHER -> "0"

\* ----------------------------------------------------------------- strings
RECURSIVE Replace(_, _, _)
Replace(s, old, new) ==
    IF s = << >> THEN << >>
    ELSE <<(IF Head(s) = old THEN new ELSE Head(s))>> \o Replace(Tail(s), old, new)

\* str.split(sep) of a non-empty string
RECURSIVE SplitFrom(_, _, _)
SplitFrom(s, sep, cur) ==
    IF s = << >> THEN <<cur>>
    ELSE IF Head(s) = sep THEN <<cur>> \o SplitFrom(Tail(s), sep, << >>)
    ELSE SplitFrom(Tail(s), sep, Append(cur, Head(s)))
Split(s, sep) == SplitFrom(s, sep, << >>)

RECURSIVE Join(_, _)
Join(parts, sep) ==
    IF parts = << >> THEN << >>
    ELSE IF Len(parts) = 1 THEN parts[1]
    ELSE parts[1] \o <<sep>> \o Join(Tail(parts), sep)

InList(x, list) == \E i \in 1..Len(list) : list[i] = x

Lower(s) == CASE s = "Foo" -> "foo" [] s = "Bar" -> "bar" [] OTHER -> s
\* re.sub(r'\[.*?\]', '', name).strip().lower()
ExtractNickname(name) == Lower(name.nick)

\* strftime('%Y%m%d') and strftime('%H%M%S')
StrfDate(d) == CASE d = 1 -> "20251031" [] d = 2 -> "20251101" [] d = 3 -> "20251102" [] OTHER -> "20251103"
StrfTime(s) == CASE s = 0 -> "000000" [] s = 1 -> "000001" [] s = 2 -> "000002"
                 [] s = 3 -> "000003" [] s = 4 -> "000004" [] s = 5 -> "000005"
                 [] OTHER -> "000006"

DayOf(dt) == dt[1]
DtLess(a, b) == a[1] < b[1] \/ (a[1] = b[1] /\ a[2] < b[2])

\* ------------------------------------------------------------------- state
VARIABLES
    ledger,       \* table ocr_event_data, in event_data_id order
    mappings,     \* table ocr_player_mapping, in mapping_id order
    attendance,   \* table attendance_records, in record_id order
    roster,       \* table users
    changes,      \* table nickname_changes
    today,        \* the day datetime.now() falls on
    nUploads,     \* uploads handled so far
    issued,       \* history: the session ids process_attendance has issued
    observed,     \* history, one entry per ledger row: what the uploads reported for it
    attEvent,     \* history, one entry per attendance row: the event day it was marked for
    replay,       \* SpecOrder: one batch of uploads stored in two orders
    pc,           \* SpecConcurrent: where each worker's request stands
    local,        \* SpecConcurrent: each request's own values and unflushed rows
    writer,       \* SpecConcurrent: the worker whose transaction holds the write lock
    seed,         \* SpecConcurrent: the tables when the first request began (history)
    response,     \* what match_and_store_scores returned to the last upload of Spec
    work          \* the record lists of one run of the screenshot pipeline

tableVars == <<ledger, mappings, attendance, roster, changes, today, nUploads,
               issued, observed, attEvent, response>>
concVars == <<pc, local, writer, seed>>
vars == <<tableVars, replay, concVars, work>>

\* ------------------------------------------------- process_attendance, head
\* event_datetime: the parsed event_date, or datetime.now() when it is left out
EventDatetime(event_date, nowSec) ==
    IF event_date = NoDate THEN <<today, nowSec>> ELSE event_date

SessionId(event_name, event_datetime) ==
    Replace(event_name, " ", "_") \o <<"_", StrfDate(event_datetime[1]), "_",
                                      StrfTime(event_datetime[2])>>

\* unique_players: one entry per name, the highest confidence kept, in the
\* order the names first appear
RECURSIVE UniquePlayers(_, _)
UniquePlayers(all_player_data, acc) ==
    IF all_player_data = << >> THEN acc
    ELSE LET data == Head(all_player_data)
             at == {i \in 1..Len(acc) : acc[i].player_name = data.player_name}
         IN  IF at = {}
             THEN UniquePlayers(Tail(all_player_data), Append(acc, data))
             ELSE LET i == CHOOSE j \in at : TRUE
                  IN  IF data.det.confidence > acc[i].det.confidence
                      THEN UniquePlayers(Tail(all_player_data), [acc EXCEPT ![i] = data])
                      ELSE UniquePlayers(Tail(all_player_data), acc)

\* ------------------------------------------------- match_and_store_scores
\* users_by_nickname: the last user of the table wins a shared key
UsersByNickname(all_users) ==
    [k \in {ExtractNickname(u.nickname) : u \in all_users} |->
        CHOOSE u \in all_users :
            /\ ExtractNickname(u.nickname) = k
            /\ \A v \in all_users : ExtractNickname(v.nickname) = k => v.fid <= u.fid]

\* matched, player_fid, user_obj for one detected name
MatchUser(player_name, all_users) ==
    LET by == UsersByNickname(all_users)
        key == ExtractNickname(player_name)
    IN  IF key \in DOMAIN by
        THEN [matched |-> TRUE, player_fid |-> FidStr(by[key].fid), user |-> by[key]]
        ELSE [matched |-> FALSE, player_fid |-> UNMATCHED_FID, user |-> [fid |-> 0]]

\* .first() of a select: the lowest row id among the rows a filter keeps
First(rows) == IF rows = {} THEN 0 ELSE CHOOSE i \in rows : \A j \in rows : i <= j

FindMapping(maps, player_name) ==
    First({i \in 1..Len(maps) : maps[i].player_name = player_name})

\* the OCRPlayerMapping upsert
PromoteMappingAlways(existing_mapping, m, confidence) ==
    [existing_mapping EXCEPT !.player_fid = m.player_fid, !.confidence = confidence]

PromoteMapping(existing_mapping, m, confidence) ==
    IF m.matched /\ existing_mapping.player_fid = UNMATCHED_FID
    THEN [existing_mapping EXCEPT !.player_fid = m.player_fid, !.confidence = confidence]
    ELSE existing_mapping

UpsertMapping(maps, player_data, m) ==
    LET i == FindMapping(maps, player_data.player_name)
    IN  IF i # 0
        THEN [maps EXCEPT ![i] =
                PromoteMapping([maps[i] EXCEPT !.last_seen = today,
                                               !.times_seen = maps[i].times_seen + 1],
                               m, player_data.det.confidence)]
        ELSE Append(maps, [player_name |-> player_data.player_name,
                           player_fid  |-> m.player_fid,
                           confidence  |-> player_data.det.confidence,
                           first_seen  |-> today,
                           last_seen   |-> today,
                           times_seen  |-> 1])

FindExistingEventExactDate(led, event_name, player_name, event_date) ==
    First({i \in 1..Len(led) :
              /\ led[i].event_name = event_name
              /\ led[i].player_name = player_name
              /\ led[i].event_date = event_date})

\* the existing_event select: same event name, same player name, event_date
\* in [midnight of the day, midnight of the next day)
FindExistingEvent(led, event_name, player_name, event_date) ==
    LET day_start == <<DayOf(event_date), 0>>
        day_end   == <<DayOf(event_date) + 1, 0>>
    IN  First({i \in 1..Len(led) :
                  /\ led[i].event_name = event_name
                  /\ led[i].player_name = player_name
                  /\ ~DtLess(led[i].event_date, day_start)
                  /\ DtLess(led[i].event_date, day_end)})

NewEventRecordSentinel(player_data, m, session_id, event_name, event_type, event_date) ==
    [event_name         |-> event_name,
     event_type         |-> event_type,
     event_date         |-> event_date,
     player_name        |-> player_data.player_name,
     player_fid         |-> m.player_fid,
     ranking            |-> player_data.ranking,
     rank_inferred      |-> FALSE,
     damage_points      |-> player_data.damage_points,
     ocr_confidence     |-> player_data.det.confidence,
     image_source       |-> player_data.det.image_source,
     processing_session |-> session_id,
     verification_count |-> 1,
     verified_sessions  |-> session_id,
     data_confidence    |-> 10]

NewEventRecord(player_data, m, session_id, event_name, event_type, event_date) ==
    [event_name         |-> event_name,
     event_type         |-> event_type,
     event_date         |-> event_date,
     player_name        |-> player_data.player_name,
     player_fid         |-> IF m.matched THEN m.player_fid ELSE NoFid,
     ranking            |-> player_data.ranking,
     rank_inferred      |-> FALSE,
     damage_points      |-> player_data.damage_points,
     ocr_confidence     |-> player_data.det.confidence,
     image_source       |-> player_data.det.image_source,
     processing_session |-> session_id,
     verification_count |-> 1,
     verified_sessions  |-> session_id,
     data_confidence    |-> 10]

VerifiedSessionsList(existing_event) ==
    IF existing_event.verified_sessions # << >>
    THEN Split(existing_event.verified_sessions, ",") ELSE << >>

DamageMatches(new_damage, existing_event) ==
    IF Truthy(new_damage) /\ Truthy(existing_event.damage_points)
    THEN Abs(new_damage - existing_event.damage_points) <= damage_tolerance
    ELSE FALSE

RankingMatches(new_ranking, existing_event) ==
    IF Truthy(new_ranking) /\ Truthy(existing_event.ranking)
    THEN new_ranking = existing_event.ranking
    ELSE FALSE

DataConfidenceUncapped(verification_count) == 10 + 2 * (verification_count - 1)

\* data confidence in tenths: min(2.0, 1.0 + 0.2 * (verification_count - 1))
DataConfidence(verification_count) == Min(20, 10 + 2 * (verification_count - 1))

\* lines 280-285: a new, agreeing session is appended to verified_sessions
AddVerification(existing_event, session_id) ==
    LET verified_sessions_list == Append(VerifiedSessionsList(existing_event), session_id)
    IN  [existing_event EXCEPT
            !.verified_sessions  = Join(verified_sessions_list, ","),
            !.verification_count = Len(verified_sessions_list),
            !.data_confidence    = DataConfidence(Len(verified_sessions_list))]

VerifyEventUnchecked(existing_event, player_data, session_id) ==
    IF ~InList(session_id, VerifiedSessionsList(existing_event))
    THEN AddVerification(existing_event, session_id)
    ELSE existing_event

VerifyEvent(existing_event, player_data, session_id) ==
    LET is_new_verification == ~InList(session_id, VerifiedSessionsList(existing_event))
    IN  IF is_new_verification
           /\ (DamageMatches(player_data.damage_points, existing_event)
               \/ RankingMatches(player_data.ranking, existing_event))
        THEN AddVerification(existing_event, session_id)
        ELSE existing_event

\* lines 287-303: the value improvements, each on the outcome of the one before
ImproveDamage(e, new_damage, session_id) ==
    IF Truthy(new_damage) /\ new_damage > OrZero(e.damage_points)
    THEN [e EXCEPT !.damage_points = new_damage, !.processing_session = session_id]
    ELSE e

ImproveRanking(e, new_ranking) ==
    LET e1 == IF Truthy(new_ranking) /\ ~Truthy(e.ranking)
              THEN [e EXCEPT !.ranking = new_ranking] ELSE e
    IN  IF Truthy(new_ranking) /\ Truthy(e1.ranking) /\ new_ranking < e1.ranking
        THEN [e1 EXCEPT !.ranking = new_ranking] ELSE e1

ImproveConfidence(e, det) ==
    IF det.confidence > e.ocr_confidence
    THEN [e EXCEPT !.ocr_confidence = det.confidence, !.image_source = det.image_source]
    ELSE e

UpdateEventRecord(existing_event, player_data, session_id) ==
    ImproveConfidence(
        ImproveRanking(
            ImproveDamage(VerifyEvent(existing_event, player_data, session_id),
                          player_data.damage_points, session_id),
            player_data.ranking),
        player_data.det)

UpsertEvent(led, player_data, m, session_id, event_name, event_type, event_date) ==
    LET i == FindExistingEvent(led, event_name, player_data.player_name, event_date)
    IN  IF i = 0
        THEN Append(led, NewEventRecord(player_data, m, session_id, event_name,
                                        event_type, event_date))
        ELSE [led EXCEPT ![i] = UpdateEventRecord(led[i], player_data, session_id)]

\* what the uploads reported for one ledger row (history)
ScoresAgree(player_data, existing_event) ==
    /\ player_data.damage_points # None
    /\ existing_event.damage_points # None
    /\ Abs(player_data.damage_points - existing_event.damage_points) <= damage_tolerance

RanksAgree(player_data, existing_event) ==
    /\ player_data.ranking # None
    /\ existing_event.ranking # None
    /\ player_data.ranking = existing_event.ranking

Observe(obs, led, i, player_data, session_id) ==
    IF i = 0
    THEN Append(obs, [n |-> 1, sessions |-> {session_id}, agreed |-> {session_id},
                      clean |-> TRUE])
    ELSE [obs EXCEPT ![i] =
            [n        |-> obs[i].n + 1,
             sessions |-> obs[i].sessions \cup {session_id},
             agreed   |-> IF ScoresAgree(player_data, led[i]) \/ RanksAgree(player_data, led[i])
                          THEN obs[i].agreed \cup {session_id} ELSE obs[i].agreed,
             clean    |-> /\ obs[i].clean
                          /\ session_id \notin obs[i].sessions
                          /\ ScoresAgree(player_data, led[i])]]

\* one pass of the loop over player_data_list (lines 195-314)
StoreOne(st, player_data, session_id, event_name, event_type, event_date, all_users) ==
    LET m == MatchUser(player_data.player_name, all_users)
        i == FindExistingEvent(st.ledger, event_name, player_data.player_name, event_date)
        out == [player_data |-> player_data, player_fid |-> m.player_fid, user |-> m.user]
    IN  [ledger          |-> UpsertEvent(st.ledger, player_data, m, session_id,
                                         event_name, event_type, event_date),
         mappings        |-> UpsertMapping(st.mappings, player_data, m),
         observed        |-> Observe(st.observed, st.ledger, i, player_data, session_id),
         matched_players |-> IF m.matched THEN Append(st.matched_players, out)
                             ELSE st.matched_players,
         unmatched       |-> IF m.matched THEN st.unmatched
                             ELSE Append(st.unmatched, out)]

RECURSIVE MatchAndStoreScores(_, _, _, _, _, _, _)
MatchAndStoreScores(player_data_list, st, session_id, event_name, event_type, event_date, all_users) ==
    IF player_data_list = << >> THEN st
    ELSE MatchAndStoreScores(Tail(player_data_list),
                             StoreOne(st, Head(player_data_list), session_id, event_name,
                                      event_type, event_date, all_users),
                             session_id, event_name, event_type, event_date, all_users)

\* ---------------------------------------------- reconcile_ocr_player_names
\* old_name_to_user[old_username][0]: the first nickname change recorded for
\* an old username whose user still exists
OldNameChange(chg, all_users, ocr_username) ==
    First({i \in 1..Len(chg) :
              /\ ExtractNickname(chg[i].old_nickname) = ocr_username
              /\ \E u \in all_users : u.fid = chg[i].fid})

ReconcileRecord(record, chg, all_users) ==
    LET i == OldNameChange(chg, all_users, ExtractNickname(record.player_name))
    IN  IF i = 0 THEN record
        ELSE LET user == CHOOSE u \in all_users : u.fid = chg[i].fid
             IN  IF record.player_name # user.nickname
                 THEN [record EXCEPT
                         !.player_name = user.nickname,
                         !.player_fid = IF record.player_fid \in {NoFid, UNMATCHED_FID}
                                        THEN FidStr(user.fid) ELSE record.player_fid]
                 ELSE record

ReconcileOcrPlayerNames(led, chg, all_users) ==
    [i \in 1..Len(led) |-> ReconcileRecord(led[i], chg, all_users)]

\* --------------------------------------------- mark_attendance_from_scores
\* session_id = f"{event_name}_{event_date.strftime('%Y%m%d')}", event_date = now
AttendanceSessionId(event_name, day) == event_name \o <<"_", StrfDate(day)>>

FindAttendance(att, player_id, session_id) ==
    First({i \in 1..Len(att) : att[i].player_id = player_id /\ att[i].session_id = session_id})

\* datetime.now() within a day: the requests served so far order the calls
Now(day) == <<day, nUploads>>

\* lines 341-367: the insert or update once the select has answered row i
MarkFound(att, i, p, event_name, day) ==
    LET session_id == AttendanceSessionId(event_name, day)
        new_damage == OrZero(p.player_data.damage_points)
    IN  IF i = 0
        THEN Append(att, [session_id   |-> session_id,
                          session_name |-> event_name,
                          event_date   |-> day,
                          player_id    |-> FidStr(p.user.fid),
                          player_name  |-> p.user.nickname,
                          points       |-> new_damage,
                          marked_at    |-> Now(day)])
        ELSE IF Truthy(new_damage) /\ new_damage > OrZero(att[i].points)
             THEN [att EXCEPT ![i].points = new_damage, ![i].marked_at = Now(day)]
             ELSE att

MarkOne(att, p, event_name, day) ==
    MarkFound(att, FindAttendance(att, FidStr(p.user.fid),
                                  AttendanceSessionId(event_name, day)),
              p, event_name, day)

RECURSIVE MarkAttendanceFromScores(_, _, _, _)
MarkAttendanceFromScores(att, matched_players, event_name, day) ==
    IF matched_players = << >> THEN att
    ELSE MarkAttendanceFromScores(MarkOne(att, Head(matched_players), event_name, day),
                                  Tail(matched_players), event_name, day)

\* the event day each attendance row was marked for (history)
RECURSIVE MarkedFor(_, _, _, _, _)
MarkedFor(attEv, att, matched_players, event_name, event_datetime) ==
    IF matched_players = << >> THEN attEv
    ELSE LET p == Head(matched_players)
             i == FindAttendance(att, FidStr(p.user.fid), AttendanceSessionId(event_name, today))
             att1 == MarkOne(att, p, event_name, today)
         IN  MarkedFor(IF i = 0 THEN Append(attEv, <<event_name, DayOf(event_datetime)>>)
                       ELSE attEv,
                       att1, Tail(matched_players), event_name, event_datetime)

\* ------------------------------------------------------------------ actions
Workers == {1, 2}
EmptyStore ==
    [ledger |-> << >>, mappings |-> << >>, observed |-> << >>,
     matched_players |-> << >>, unmatched |-> << >>]
NoReplay == [done |-> FALSE, batch |-> << >>, a |-> << >>, b |-> << >>]
NoLocal == [u |-> << >>]
NoResponse == [done |-> FALSE]
NoWork == [stage |-> "none"]

Init ==
    /\ ledger = << >>
    /\ mappings = << >>
    /\ attendance = << >>
    /\ roster \in SUBSET AllUsers
    /\ changes = << >>
    /\ today = 1
    /\ nUploads = 0
    /\ issued = {}
    /\ observed = << >>
    /\ attEvent = << >>
    /\ replay = NoReplay
    /\ pc = [w \in Workers |-> "idle"]
    /\ local = [w \in Workers |-> NoLocal]
    /\ writer = 0
    /\ seed = << >>
    /\ response = NoResponse
    /\ work = NoWork

\* the keys of the JSON bodies of lines 310-342 and 348-350
SuccessBody == {"success", "session_id", "summary", "matched_players", "unmatched_players"}
ErrorBody == {"error", "traceback"}

\* POST /api/process-attendance (lines 206-327), from the session id on
ProcessAttendance(event_name, event_date, nowSec, all_player_data, respond) ==
    \E event_datetime \in {EventDatetime(event_date, nowSec)} :
    \E session_id \in {SessionId(event_name, event_datetime)} :
    \E st \in {MatchAndStoreScores(UniquePlayers(all_player_data, << >>),
                  [ledger |-> ledger, mappings |-> mappings, observed |-> observed,
                   matched_players |-> << >>, unmatched |-> << >>],
                  session_id, event_name, DEFAULT_EVENT_TYPE, event_datetime, roster)} :
        /\ ledger' = ReconcileOcrPlayerNames(st.ledger, changes, roster)
        /\ mappings' = st.mappings
        /\ observed' = st.observed
        /\ attendance' = MarkAttendanceFromScores(attendance, st.matched_players,
                                                  event_name, today)
        /\ attEvent' = MarkedFor(attEvent, attendance, st.matched_players,
                                 event_name, event_datetime)
        /\ issued' = issued \cup {session_id}
        /\ nUploads' = nUploads + 1
        /\ response' = IF respond
                        THEN [done            |-> TRUE,
                              event_name      |-> event_name,
                              event_date      |-> event_datetime,
                              session_id      |-> session_id,
                              player_data_list |-> UniquePlayers(all_player_data, << >>),
                              matched_players |-> st.matched_players,
                              unmatched       |-> st.unmatched,
                              before          |-> ledger,
                              stored          |-> st.ledger,
                              status_code     |-> 200,
                              body            |-> SuccessBody]
                        ELSE response
        /\ UNCHANGED <<roster, changes, today, replay, concVars>>

Upload ==
    /\ nUploads < MaxUploads
    /\ \E u \in Uploads :
        \E nowSec \in (IF u.event_date = NoDate THEN Secs ELSE {0}) :
            ProcessAttendance(u.event_name, u.event_date, nowSec, u.all_player_data, TRUE)
    /\ UNCHANGED work

\* the clock passes midnight
Tick ==
    /\ today + 1 \in Days
    /\ today' = today + 1
    /\ UNCHANGED <<ledger, mappings, attendance, roster, changes, nUploads,
                   issued, observed, attEvent, response, replay, concVars, work>>

\* the users table is maintained outside the web application
RosterChange ==
    /\ \E r \in SUBSET AllUsers : r # roster /\ roster' = r
    /\ UNCHANGED <<ledger, mappings, attendance, changes, today, nUploads,
                   issued, observed, attEvent, response, replay, concVars, work>>

Next == Upload \/ Tick \/ RosterChange

Spec == Init /\ [][Next]_vars

\* many upload sessions of one event day
ConsensusUpload ==
    /\ nUploads < MaxSessions
    /\ \E u \in ConsensusUploads :
        ProcessAttendance(u.event_name, u.event_date, 0, u.all_player_data, FALSE)
    /\ UNCHANGED work

NextConsensus == ConsensusUpload

SpecConsensus == Init /\ [][NextConsensus]_vars

\* ------------------------------------------------ uploads in two orders
\* match_and_store_scores for one upload, on the tables st.ledger, st.mappings
StoreUpload(st, u) ==
    MatchAndStoreScores(UniquePlayers(u.all_player_data, << >>),
                        [st EXCEPT !.matched_players = << >>, !.unmatched = << >>],
                        SessionId(u.event_name, u.event_date), u.event_name,
                        DEFAULT_EVENT_TYPE, u.event_date, roster)

RECURSIVE StoreUploads(_, _)
StoreUploads(st, uploads) ==
    IF uploads = << >> THEN st
    ELSE StoreUploads(StoreUpload(st, Head(uploads)), Tail(uploads))

Orders(n) == {f \in [1..n -> 1..n] : \A i, j \in 1..n : f[i] = f[j] => i = j}

\* the uploads of a batch: session i reports batch[i] for the same event day
BatchUploads(batch) ==
    [i \in 1..Len(batch) |-> UploadForm(PlainEvent, <<1, i - 1>>, <<batch[i]>>)]

\* one batch stored from empty tables in session order and in another order
ReplayOrders ==
    /\ ~replay.done
    /\ \E n \in 2..MaxBatch :
        \E batch \in [1..n -> OrderObservations], f \in Orders(n) :
            replay' = [done  |-> TRUE,
                       batch |-> batch,
                       a |-> StoreUploads(EmptyStore, BatchUploads(batch)).ledger,
                       b |-> StoreUploads(EmptyStore,
                                [i \in 1..n |-> BatchUploads(batch)[f[i]]]).ledger]
    /\ UNCHANGED <<tableVars, concVars, work>>

NextOrder == ReplayOrders

SpecOrder == Init /\ [][NextOrder]_vars

\* ------------------------------------------------- two requests at once
\* Each request has its own Session on web_cache.sqlite.  A select outside a
\* transaction reads the committed tables; the first flush begins the
\* transaction and takes the database's write lock, which is held until
\* the commit; a flush that cannot take the lock in time raises.
LockFreeAlways(w) == TRUE

LockFree(w) == writer = 0

\* a sequential upload before the two requests, so that they may find a row
SeedUpload ==
    /\ \A w \in Workers : pc[w] = "idle"
    /\ nUploads = 0
    /\ \E u \in ConcurrentUploads :
        ProcessAttendance(u.event_name, u.event_date, 0, u.all_player_data, FALSE)
    /\ UNCHANGED work

\* process_attendance up to the call of match_and_store_scores, and the
\* users select of its line 192
BeginRequest(w) ==
    /\ pc[w] = "idle"
    /\ \E u \in ConcurrentUploads :
        local' = [local EXCEPT ![w] =
                    [u |-> u,
                     session_id |-> SessionId(u.event_name, u.event_date),
                     player_data |-> UniquePlayers(u.all_player_data, << >>)[1],
                     m |-> MatchUser(UniquePlayers(u.all_player_data, << >>)[1].player_name,
                                     roster),
                     mapping_id |-> 0, mapping |-> << >>, event |-> << >>,
                     attendance_id |-> 0]]
    /\ seed' = IF \A v \in Workers : pc[v] = "idle"
               THEN [ledger |-> ledger, mappings |-> mappings, observed |-> observed]
               ELSE seed
    /\ pc' = [pc EXCEPT ![w] = "select_mapping"]
    /\ UNCHANGED <<tableVars, replay, writer, work>>

\* lines 206-230: existing_mapping is read and changed in memory
SelectMapping(w) ==
    /\ pc[w] = "select_mapping"
    /\ \E i \in {FindMapping(mappings, local[w].player_data.player_name)} :
        local' = [local EXCEPT ![w].mapping_id = i,
                               ![w].mapping = IF i = 0 THEN << >> ELSE mappings[i]]
    /\ pc' = [pc EXCEPT ![w] = "select_event"]
    /\ UNCHANGED <<tableVars, replay, writer, seed, work>>

\* lines 232-306: the existing_event select flushes the mapping first, which
\* begins the transaction; the event row is then read and changed in memory
SelectEvent(w) ==
    /\ pc[w] = "select_event"
    /\ LockFree(w)
    /\ writer' = w
    /\ \E i \in {FindExistingEvent(ledger, local[w].u.event_name,
                                   local[w].player_data.player_name,
                                   local[w].u.event_date)} :
        local' = [local EXCEPT ![w].event =
                    IF i = 0
                    THEN [id |-> 0,
                          row |-> NewEventRecord(local[w].player_data, local[w].m,
                                                 local[w].session_id, local[w].u.event_name,
                                                 DEFAULT_EVENT_TYPE, local[w].u.event_date)]
                    ELSE [id |-> i,
                          row |-> UpdateEventRecord(ledger[i], local[w].player_data,
                                                    local[w].session_id)]]
    /\ pc' = [pc EXCEPT ![w] = "commit"]
    /\ UNCHANGED <<tableVars, replay, seed, work>>

\* the flush waits for the lock longer than the connection's timeout: the
\* request ends in the handler's except branch (api.py 344-350)
LockTimeout(w) ==
    /\ pc[w] = "select_event"
    /\ ~LockFree(w)
    /\ pc' = [pc EXCEPT ![w] = "failed"]
    /\ UNCHANGED <<tableVars, replay, local, writer, seed, work>>

\* the mapping row a flush writes: a new row, or the columns changed in memory
FlushMapping(maps, l) ==
    IF l.mapping_id = 0
    THEN Append(maps, [player_name |-> l.player_data.player_name,
                       player_fid  |-> l.m.player_fid,
                       confidence  |-> l.player_data.det.confidence,
                       first_seen  |-> today,
                       last_seen   |-> today,
                       times_seen  |-> 1])
    ELSE LET changed == PromoteMapping([l.mapping EXCEPT
                                           !.last_seen = today,
                                           !.times_seen = l.mapping.times_seen + 1],
                                       l.m, l.player_data.det.confidence)
         IN  [maps EXCEPT ![l.mapping_id] =
                [@ EXCEPT !.last_seen = changed.last_seen,
                          !.times_seen = changed.times_seen,
                          !.player_fid = IF changed.player_fid # l.mapping.player_fid
                                         THEN changed.player_fid ELSE @,
                          !.confidence = IF changed.confidence # l.mapping.confidence
                                         THEN changed.confidence ELSE @]]

FlushEvent(led, l) ==
    IF l.event.id = 0 THEN Append(led, l.event.row)
    ELSE [led EXCEPT ![l.event.id] = l.event.row]

\* api.py 292-302: cache_session.commit(), then reconcile_ocr_player_names
CommitCache(w) ==
    /\ pc[w] = "commit"
    /\ mappings' = FlushMapping(mappings, local[w])
    /\ ledger' = ReconcileOcrPlayerNames(FlushEvent(ledger, local[w]), changes, roster)
    /\ writer' = 0
    /\ pc' = [pc EXCEPT ![w] = IF local[w].m.matched THEN "select_attendance" ELSE "done"]
    /\ UNCHANGED <<attendance, roster, changes, today, nUploads, issued, observed,
                   attEvent, response, replay, local, seed, work>>

\* mark_attendance_from_scores, lines 335-339
SelectAttendance(w) ==
    /\ pc[w] = "select_attendance"
    /\ local' = [local EXCEPT ![w].attendance_id =
                    FindAttendance(attendance, local[w].m.player_fid,
                                   AttendanceSessionId(local[w].u.event_name, today))]
    /\ pc' = [pc EXCEPT ![w] = "commit_attendance"]
    /\ UNCHANGED <<tableVars, replay, writer, seed, work>>

\* mark_attendance_from_scores, lines 341-369
CommitAttendance(w) ==
    /\ pc[w] = "commit_attendance"
    /\ attendance' = MarkFound(attendance, local[w].attendance_id,
                               [player_data |-> local[w].player_data, user |-> local[w].m.user],
                               local[w].u.event_name, today)
    /\ pc' = [pc EXCEPT ![w] = "done"]
    /\ UNCHANGED <<ledger, mappings, roster, changes, today, nUploads, issued, observed,
                   attEvent, response, replay, local, writer, seed, work>>

NextConcurrent ==
    \/ SeedUpload
    \/ \E w \in Workers : BeginRequest(w)
    \/ \E w \in Workers : SelectMapping(w)
    \/ \E w \in Workers : SelectEvent(w)
    \/ \E w \in Workers : LockTimeout(w)
    \/ \E w \in Workers : CommitCache(w)
    \/ \E w \in Workers : SelectAttendance(w)
    \/ \E w \in Workers : CommitAttendance(w)

SpecConcurrent == Init /\ [][NextConcurrent]_vars

\* ------------------------------- process_event_screenshots: duplicates
\* (src/ocr_attendance_enhanced.py)  Player names are character sequences.
NameAb == <<"[", "D", "O", "A", "]", "a", "b">>
NameAc == <<"[", "D", "O", "A", "]", "a", "c">>
NameAd == <<"[", "D", "O", "A", "]", "a", "d">>
NameAB == <<"[", "D", "O", "A", "]", "A", "b">>
NameXy == <<"[", "D", "O", "A", "]", "x", "y">>
NameWxyz == <<"[", "D", "O", "A", "]", "w", "x", "y", "z">>

\* one entry of extract_player_scores (lines 109-118)
PlayerEntry(name, ranking, damage, confidence, sticky, image, y) ==
    [player_name |-> name, ranking |-> ranking, damage_points |-> damage,
     confidence |-> confidence, is_sticky_card |-> sticky,
     image_source |-> image, bbox_y |-> y]

DedupRecords ==
    {PlayerEntry(NameAb, 1, 100000, 60, FALSE, 1, 10),
     PlayerEntry(NameAc, 2, 200000, 90, FALSE, 1, 20),
     PlayerEntry(NameAd, 3, 300000, 60, FALSE, 1, 30),
     PlayerEntry(NameAb, None, 100000, 90, TRUE, 2, 90),
     PlayerEntry(NameAB, None, None, 90, FALSE, 2, 10),
     PlayerEntry(NameXy, 1, 100500, 60, FALSE, 2, 20),
     PlayerEntry(NameAb, 1, 100000, 90, FALSE, 2, 30),
     PlayerEntry(NameWxyz, None, 300000, 60, TRUE, 1, 90)}

LowerChar(c) ==
    CASE c = "A" -> "a" [] c = "B" -> "b" [] c = "D" -> "d" [] c = "O" -> "o"
      [] OTHER -> c
LowerStr(s) == [i \in 1..Len(s) |-> LowerChar(s[i])]

Max(a, b) == IF a >= b THEN a ELSE b

\* the longest common subsequence of two strings
RECURSIVE LCS(_, _)
LCS(a, b) ==
    IF a = << >> \/ b = << >> THEN 0
    ELSE IF Head(a) = Head(b) THEN 1 + LCS(Tail(a), Tail(b))
    ELSE Max(LCS(Tail(a), b), LCS(a, Tail(b)))

\* fuzz.ratio(name1, name2) >= percent, the ratio being
\* 100 * 2 * LCS / (len(name1) + len(name2))
RatioAtLeast(name1, name2, percent) ==
    200 * LCS(name1, name2) >= percent * (Len(name1) + Len(name2))

RankMatch(rank1, rank2) ==
    IF Truthy(rank1) /\ Truthy(rank2) THEN Abs(rank1 - rank2) <= 1 ELSE FALSE

\* abs(damage1 - damage2) / max_damage * 100 < 1.0
ScoreMatch(damage1, damage2) ==
    IF Truthy(damage1) /\ Truthy(damage2) /\ Max(damage1, damage2) > 0
    THEN 100 * Abs(damage1 - damage2) < Max(damage1, damage2)
    ELSE FALSE

IsFuzzyDuplicate(data1, data2) ==
    LET name1 == LowerStr(data1.player_name)
        name2 == LowerStr(data2.player_name)
        rank_match == RankMatch(data1.ranking, data2.ranking)
        score_match == ScoreMatch(data1.damage_points, data2.damage_points)
    IN  \/ RatioAtLeast(name1, name2, 95)
        \/ RatioAtLeast(name1, name2, 85) /\ (rank_match \/ score_match)
        \/ rank_match /\ score_match /\ RatioAtLeast(name1, name2, 70)

\* unique_players is a dict: its entries in insertion order
NoPlayers == [raised |-> FALSE, players |-> << >>, collisions |-> << >>]

RemoveAt(seq, j) == [k \in 1..(Len(seq) - 1) |-> IF k < j THEN seq[k] ELSE seq[k + 1]]

\* the survivor of a collision of data with the entry existing
NewReplaces(data, existing) ==
    IF data.is_sticky_card /\ ~existing.is_sticky_card THEN FALSE
    ELSE IF ~data.is_sticky_card /\ existing.is_sticky_card THEN TRUE
    ELSE data.confidence > existing.confidence

\* the {...:,} of line 557 raises TypeError for None
FormatsWithCommas(damage) == damage # None

\* one pass of the loop of lines 528-581; collisions is the history of the
\* pairs that collided and which one was kept
ResolveOne(st, data) ==
    IF st.raised THEN st
    ELSE LET at == First({k \in 1..Len(st.players) :
                             st.players[k].player_name = data.player_name})
             j  == First({k \in 1..Len(st.players) : IsFuzzyDuplicate(data, st.players[k])})
         IN  IF at # 0
             THEN [st EXCEPT
                     !.players = IF NewReplaces(data, st.players[at])
                                 THEN [st.players EXCEPT ![at] = data] ELSE st.players,
                     !.collisions = Append(st.collisions,
                         [new |-> data, existing |-> st.players[at], raised |-> FALSE,
                          kept |-> IF NewReplaces(data, st.players[at])
                                   THEN data ELSE st.players[at]])]
             ELSE IF j = 0
             THEN [st EXCEPT !.players = Append(st.players, data)]
             ELSE IF ~(FormatsWithCommas(data.damage_points)
                       /\ FormatsWithCommas(st.players[j].damage_points))
             THEN [st EXCEPT
                     !.raised = TRUE,
                     !.collisions = Append(st.collisions,
                         [new |-> data, existing |-> st.players[j], raised |-> TRUE,
                          kept |-> data])]
             ELSE [st EXCEPT
                     !.players = IF NewReplaces(data, st.players[j])
                                 THEN Append(RemoveAt(st.players, j), data) ELSE st.players,
                     !.collisions = Append(st.collisions,
                         [new |-> data, existing |-> st.players[j], raised |-> FALSE,
                          kept |-> IF NewReplaces(data, st.players[j])
                                   THEN data ELSE st.players[j]])]

RECURSIVE ResolveFrom(_, _)
ResolveFrom(st, all_player_data) ==
    IF all_player_data = << >> THEN st
    ELSE ResolveFrom(ResolveOne(st, Head(all_player_data)), Tail(all_player_data))

\* player_data_list = list(unique_players.values())
ResolveDuplicates(all_player_data) == ResolveFrom(NoPlayers, all_player_data)

\* the pass over the records of the images of one run
Resolve ==
    /\ work.stage = "none"
    /\ \E n \in 1..MaxRecords :
        \E all_player_data \in [1..n -> DedupRecords] :
            work' = [stage |-> "resolved", input |-> all_player_data,
                     out |-> ResolveDuplicates(all_player_data)]
    /\ UNCHANGED <<tableVars, replay, concVars>>

\* the pass again, over its own output
ResolveAgain ==
    /\ work.stage = "resolved"
    /\ ~work.out.raised
    /\ work' = [stage |-> "again", input |-> work.input, out |-> work.out,
                again |-> ResolveDuplicates(work.out.players)]
    /\ UNCHANGED <<tableVars, replay, concVars>>

\* the pass over the same records in another order
ResolveReordered ==
    /\ work.stage = "resolved"
    /\ \E f \in Orders(Len(work.input)) :
        work' = [stage |-> "reordered", input |-> work.input, out |-> work.out,
                 other |-> ResolveDuplicates([i \in 1..Len(work.input) |-> work.input[f[i]]])]
    /\ UNCHANGED <<tableVars, replay, concVars>>

NextDedup == Resolve \/ ResolveAgain \/ ResolveReordered

SpecDedup == Init /\ [][NextDedup]_vars

\* ------------------------------------ EnhancedOCRProcessor.infer_missing_ranks
\* records of one or two images, at three heights of the first
RankRecords ==
    {PlayerEntry(NameAb, r, 100000, 60, FALSE, pos[1], pos[2]) :
        r \in {None, 1, 3, 5}, pos \in {<<1, 10>>, <<1, 20>>, <<1, 30>>, <<2, 10>>}}

\* the key of sorted(): (image_source, bbox_y)
KeyLessOrEqual(x, y) ==
    \/ x.image_source < y.image_source
    \/ x.image_source = y.image_source /\ x.bbox_y <= y.bbox_y

\* sorted() is stable: a record goes after the records whose key is not greater
InsertSorted(sorted_players, x) ==
    LET n == Cardinality({k \in 1..Len(sorted_players) : KeyLessOrEqual(sorted_players[k], x)})
    IN  [k \in 1..(Len(sorted_players) + 1) |->
            IF k <= n THEN sorted_players[k]
            ELSE IF k = n + 1 THEN x ELSE sorted_players[k - 1]]

RECURSIVE SortPlayers(_, _)
SortPlayers(player_data_list, acc) ==
    IF player_data_list = << >> THEN acc
    ELSE SortPlayers(Tail(player_data_list), InsertSorted(acc, Head(player_data_list)))

\* player['ranking'] = ...; player['rank_inferred'] = ...
WithRank(player, ranking, rank_inferred) ==
    [player_name |-> player.player_name, ranking |-> ranking,
     damage_points |-> player.damage_points, confidence |-> player.confidence,
     is_sticky_card |-> player.is_sticky_card, image_source |-> player.image_source,
     bbox_y |-> player.bbox_y, rank_inferred |-> rank_inferred]

RankFromNextUnchecked(ranking) == ranking - 1

\* lines 217-221: the rank below the next player's, if it is a rank
RankFromNext(ranking) == IF ranking - 1 >= 1 THEN ranking - 1 ELSE None

\* lines 199-230 for the player at index i of the list being filled
InferAt(sorted_players, i) ==
    LET player == sorted_players[i]
        from_prev == IF i > 1 /\ sorted_players[i - 1].ranking # None
                     THEN sorted_players[i - 1].ranking + 1 ELSE None
        inferred_rank ==
            IF from_prev = None /\ i < Len(sorted_players)
               /\ sorted_players[i + 1].ranking # None
            THEN RankFromNext(sorted_players[i + 1].ranking)
            ELSE from_prev
    IN  IF player.ranking # None THEN sorted_players
        ELSE IF inferred_rank # None
        THEN [sorted_players EXCEPT ![i] = WithRank(player, inferred_rank, TRUE)]
        ELSE [sorted_players EXCEPT ![i] = WithRank(player, None, FALSE)]

RECURSIVE InferFrom(_, _)
InferFrom(sorted_players, i) ==
    IF i > Len(sorted_players) THEN sorted_players
    ELSE InferFrom(InferAt(sorted_players, i), i + 1)

InferMissingRanks(player_data_list) == InferFrom(SortPlayers(player_data_list, << >>), 1)

InferRanks ==
    /\ work.stage = "none"
    /\ \E n \in 1..MaxRanked :
        \E player_data_list \in [1..n -> RankRecords] :
            work' = [stage |-> "ranked", input |-> player_data_list,
                     sorted |-> SortPlayers(player_data_list, << >>),
                     out |-> InferMissingRanks(player_data_list)]
    /\ UNCHANGED <<tableVars, replay, concVars>>

NextRanks == InferRanks

SpecRanks == Init /\ [][NextRanks]_vars

\* ------------------------------------ NameCorrectionEngine (web/ocr_name_correction.py)
NoTag == << >>
NoUser == [fid |-> 0, nickname |-> << >>]
min_score_default == 80
min_score == 75

\* the users table: nicknames are stored without a tag
RosterUsers ==
    {[fid |-> 101, nickname |-> <<"a", "b", "c", "d">>],
     [fid |-> 102, nickname |-> <<"a", "b", "c", "e">>],
     [fid |-> 103, nickname |-> <<"w", "x", "y", "z">>]}
Candidates ==
    {c \in UNION {[1..n -> RosterUsers] : n \in 0..3} :
        \A i, j \in 1..Len(c) : c[i] = c[j] => i = j}

DetectedNames ==
    {<<"[", "D", "O", "A", "]", "a", "b", "c", "d">>,
     <<"[", "D", "O", "A", "]", "a", "b", "c", "e">>,
     <<"[", "D", "O", "A", "]", "a", "b", "c", "f">>,
     <<"[", "D", "O", "A", "]", "a", "b", "f", "g">>,
     <<"[", "D", "O", "A", "J", "a", "b", "c", "d">>,
     <<"[", "D", "O", "A", "]", "a", "b", "c", "d", " ">>,
     <<" ", "[", "D", "O", "A", "]", " ", "w", "x", "y", "z">>,
     <<"[", " ", "]", "a", "b", "c", "d">>,
     <<"[", "]", "a", "b", "c", "d">>,
     <<"[", "D", "O", "A", "]">>,
     <<"a", "b", "c", "d">>,
     <<"a", "b", "c", "f">>,
     <<"q">>}

\* str.strip()
RECURSIVE StripLeft(_)
StripLeft(s) == IF s # << >> /\ Head(s) = " " THEN StripLeft(Tail(s)) ELSE s
RECURSIVE StripRight(_)
StripRight(s) ==
    IF s # << >> /\ s[Len(s)] = " " THEN StripRight(SubSeq(s, 1, Len(s) - 1)) ELSE s
Strip(s) == StripRight(StripLeft(s))

fix_common_ocr_errors(text) == Strip(text)

\* re.match(r'\[([^\]]+)\](.+)', player_name): (tag, name), or (None, player_name)
extract_alliance_tag(player_name) ==
    LET close == First({k \in 1..Len(player_name) : player_name[k] = "]"})
    IN  IF Len(player_name) >= 1 /\ player_name[1] = "[" /\ close >= 3
           /\ close < Len(player_name)
        THEN [tag  |-> Strip(SubSeq(player_name, 2, close - 1)),
              name |-> Strip(SubSeq(player_name, close + 1, Len(player_name)))]
        ELSE [tag |-> NoTag, name |-> player_name]

\* fuzz.ratio as the fraction num / den of 100
Ratio(s1, s2) ==
    IF Len(s1) + Len(s2) = 0 THEN [num |-> 100, den |-> 1]
    ELSE [num |-> 200 * LCS(s1, s2), den |-> Len(s1) + Len(s2)]
ScoreLess(x, y) == x.num * y.den < y.num * x.den
NoScore == [num |-> 0, den |-> 1]

\* process.extractOne(query, choices, scorer=fuzz.ratio, score_cutoff=cutoff):
\* the index of the first choice of the best score, 0 when none reaches it
extractOne(query, choices, cutoff) ==
    First({i \in 1..Len(choices) :
              /\ Ratio(query, choices[i]).num >= cutoff * Ratio(query, choices[i]).den
              /\ \A j \in 1..Len(choices) :
                    ~ScoreLess(Ratio(query, choices[i]), Ratio(query, choices[j]))})

fuzzy_match_player_name(detected_name, candidates, cutoff) ==
    LET cleaned_name == fix_common_ocr_errors(detected_name)
        name_without_tag == extract_alliance_tag(cleaned_name).name
        full == [i \in 1..Len(candidates) |-> candidates[i].nickname]
        notag == [i \in 1..Len(candidates) |->
                     extract_alliance_tag(candidates[i].nickname).name]
        best_match_full == extractOne(cleaned_name, full, cutoff)
        best_match_notag == extractOne(name_without_tag, notag, cutoff)
        score_full == IF best_match_full # 0
                      THEN Ratio(cleaned_name, full[best_match_full]) ELSE NoScore
        score_notag == IF best_match_notag # 0
                       THEN Ratio(name_without_tag, notag[best_match_notag]) ELSE NoScore
    IN  IF candidates = << >>
        THEN [user |-> NoUser, score |-> NoScore, name |-> cleaned_name]
        ELSE IF best_match_notag # 0 /\ ScoreLess(score_full, score_notag)
        THEN [user |-> candidates[best_match_notag], score |-> score_notag,
              name |-> candidates[best_match_notag].nickname]
        ELSE IF best_match_full # 0
        THEN [user |-> candidates[best_match_full], score |-> score_full,
              name |-> candidates[best_match_full].nickname]
        ELSE [user |-> NoUser, score |-> NoScore, name |-> detected_name]

correct_player_name(detected_name, candidates) ==
    LET cleaned == fix_common_ocr_errors(detected_name)
        tagged == extract_alliance_tag(cleaned)
        search_name == IF tagged.tag # NoTag THEN tagged.name ELSE cleaned
        found == fuzzy_match_player_name(search_name, candidates, min_score)
    IN  IF found.user # NoUser
        THEN [corrected_name |-> IF tagged.tag # NoTag
                                 THEN <<"[">> \o tagged.tag \o <<"]">> \o found.name
                                 ELSE found.name,
              matched_user |-> found.user,
              confidence |-> found.score,
              search_name |-> search_name]
        ELSE [corrected_name |-> cleaned, matched_user |-> NoUser,
              confidence |-> NoScore, search_name |-> search_name]

CorrectName ==
    /\ work.stage = "none"
    /\ \E detected_name \in DetectedNames, candidates \in Candidates :
        work' = [stage |-> "corrected", detected_name |-> detected_name,
                 candidates |-> candidates,
                 out |-> correct_player_name(detected_name, candidates)]
    /\ UNCHANGED <<tableVars, replay, concVars>>

NextNames == CorrectName

SpecNames == Init /\ [][NextNames]_vars

\* ---------------------------------------------- an upload that meets a fault
\* What reader.predict returned for one image.  ocr_results is None, a
\* string, or a list of pages; a page is None or a dict with some of the keys
\* rec_texts, rec_scores.  A text is a player's name, with the rank and the
\* score the polygons place beside it, or other text, or not a string.
NameText(name, ranking, damage) ==
    [kind |-> "name", player_name |-> name, ranking |-> ranking, damage_points |-> damage]
OtherText == [kind |-> "other"]
NotText == [kind |-> "none"]
Page(keys, rec_texts, rec_scores) ==
    [kind |-> "dict", keys |-> keys, rec_texts |-> rec_texts, rec_scores |-> rec_scores]
PageNone == [kind |-> "none"]
OcrList(pages) == [kind |-> "list", pages |-> pages]
OcrNone == [kind |-> "none", pages |-> << >>]
OcrString == [kind |-> "str", pages |-> << >>]
BothKeys == {"rec_texts", "rec_scores"}

GoodOutputs ==
    {OcrList(<<Page(BothKeys, <<NameText(Foo, 1, 1000), OtherText>>, <<60, 90>>)>>),
     OcrList(<<Page(BothKeys, <<OtherText, NameText(Bar, 2, 1800)>>, <<90, 60>>)>>),
     OcrList(<<Page(BothKeys, <<NameText(Foo, 2, 2600)>>, <<90>>)>>),
     OcrList(<<Page(BothKeys, <<NameText(Bar, 1, 1000)>>, <<50>>)>>)}
EmptyOutputs ==
    {OcrNone, OcrList(<< >>),
     OcrList(<<Page(BothKeys, << >>, << >>)>>),
     OcrList(<<Page(BothKeys, <<OtherText>>, <<90>>)>>)}
MalformedOutputs ==
    {OcrString,
     OcrList(<<PageNone>>),
     OcrList(<<Page({"rec_scores"}, << >>, <<90>>)>>),
     OcrList(<<Page(BothKeys, <<NameText(Foo, 1, 1000)>>, <<None>>)>>),
     OcrList(<<Page(BothKeys, <<NotText>>, <<90>>)>>)}
OcrOutputs == GoodOutputs \cup EmptyOutputs \cup MalformedOutputs

ImageName(i) == IF i = 1 THEN "a.png" ELSE IF i = 2 THEN "b.png" ELSE "c.png"

\* lines 88-163 for the text items from index i on; raised when a statement
\* outside the try of line 95 raises
RECURSIVE ExtractFrom(_, _, _, _, _)
ExtractFrom(texts, scores, i, image_name, player_data) ==
    IF i > Min(Len(texts), Len(scores)) THEN [raised |-> FALSE, player_data |-> player_data]
    ELSE IF texts[i].kind = "none"
    THEN [raised |-> TRUE, player_data |-> << >>]
    ELSE IF texts[i].kind = "other"
    THEN ExtractFrom(texts, scores, i + 1, image_name, player_data)
    ELSE IF scores[i] = None
    THEN [raised |-> TRUE, player_data |-> << >>]
    ELSE IF scores[i] > 55
    THEN ExtractFrom(texts, scores, i + 1, image_name,
                     Append(player_data,
                            Detected(texts[i].player_name, texts[i].ranking,
                                     texts[i].damage_points,
                                     [confidence |-> scores[i], image_source |-> image_name])))
    ELSE ExtractFrom(texts, scores, i + 1, image_name, player_data)

extract_player_scores_from_ocr(ocr_results, image_name) ==
    IF ocr_results.kind # "list" \/ ocr_results.pages = << >>
    THEN [raised |-> FALSE, player_data |-> << >>]
    ELSE IF ocr_results.pages[1].kind = "none"
    THEN [raised |-> TRUE, player_data |-> << >>]
    ELSE IF ~(BothKeys \subseteq ocr_results.pages[1].keys)
    THEN [raised |-> FALSE, player_data |-> << >>]
    ELSE ExtractFrom(ocr_results.pages[1].rec_texts, ocr_results.pages[1].rec_scores,
                     1, image_name, << >>)

\* lines 254-266: the images one after the other; an exception leaves the loop
RECURSIVE ExtractImages(_, _, _)
ExtractImages(images, i, all_player_data) ==
    IF i > Len(images) THEN [raised |-> FALSE, player_data |-> all_player_data]
    ELSE LET player_data == extract_player_scores_from_ocr(images[i], ImageName(i))
         IN  IF player_data.raised THEN [raised |-> TRUE, player_data |-> << >>]
             ELSE ExtractImages(images, i + 1, all_player_data \o player_data.player_data)

\* lines 344-350: the except branch; the request's sessions are closed
\* without a commit, which rolls back what was flushed
ErrorResponse(event_name, event_datetime, player_data_list, failed_at) ==
    [done |-> TRUE, event_name |-> event_name, event_date |-> event_datetime,
     session_id |-> SessionId(event_name, event_datetime),
     player_data_list |-> player_data_list,
     matched_players |-> << >>, unmatched |-> << >>,
     before |-> ledger, stored |-> ledger,
     status_code |-> 500, body |-> ErrorBody, failed_at |-> failed_at]

Rejected(event_name, event_datetime, player_data_list, failed_at) ==
    /\ response' = ErrorResponse(event_name, event_datetime, player_data_list, failed_at)
    /\ issued' = issued \cup {SessionId(event_name, event_datetime)}
    /\ nUploads' = nUploads + 1
    /\ UNCHANGED <<ledger, mappings, attendance, observed, attEvent,
                   roster, changes, today, replay, concVars>>

\* an upload of several images
UploadImages ==
    /\ work.stage = "none"
    /\ \E n \in 1..MaxImages :
        \E images \in [1..n -> OcrOutputs] :
        \E all \in {ExtractImages(images, 1, << >>)} :
            /\ work' = [stage |-> "images", images |-> images]
            /\ IF all.raised
               THEN Rejected(PlainEvent, <<1, 1>>, << >>, 0)
               ELSE ProcessAttendance(PlainEvent, <<1, 1>>, 0, all.player_data, TRUE)

FaultLists ==
    {l \in UNION {[1..n -> {Base, Detected(Bar, 2, 1800, DetA), Detected(Foo, 2, 2600, DetB)}] :
                    n \in 1..3} :
        \A i, j \in 1..Len(l) : l[i].player_name = l[j].player_name => i = j}

\* an upload during which the write of record failed_at raises (the
\* database is locked or cannot be written): match_and_store_scores is left
\* before the commit of line 292
FailingUpload ==
    /\ work.stage = "none"
    /\ \E player_data_list \in FaultLists :
        \E failed_at \in 1..Len(player_data_list) :
            /\ work' = [stage |-> "failed", failed_at |-> failed_at,
                        flushed |-> MatchAndStoreScores(
                                        SubSeq(player_data_list, 1, failed_at - 1),
                                        [ledger |-> ledger, mappings |-> mappings,
                                         observed |-> observed,
                                         matched_players |-> << >>, unmatched |-> << >>],
                                        SessionId(PlainEvent, <<1, 1>>), PlainEvent,
                                        DEFAULT_EVENT_TYPE, <<1, 1>>, roster).ledger]
            /\ Rejected(PlainEvent, <<1, 1>>, player_data_list, failed_at)

NextFaults == UploadImages \/ FailingUpload

SpecFaults == Init /\ [][NextFaults]_vars

\* ------------------------- the command-line processor writes the same table
\* what infer_missing_ranks hands to the store: a rank that was read, one
\* that was inferred, or none
ProcessedPlayers ==
    {[player_data |-> Detected(Foo, r, p, DetA), rank_inferred |-> b] :
        r \in Rankings, p \in {1000, 2600}, b \in BOOLEAN} \ 
    {[player_data |-> Detected(Foo, None, p, DetA), rank_inferred |-> TRUE] : p \in {1000, 2600}}

\* EnhancedOCRProcessor.match_and_store_scores, lines 312-330: always an
\* insert; the verification columns take the defaults of OCREventData
ProcessedEventRecord(player, player_fid, session_id, event_name, event_date) ==
    [event_name         |-> event_name,
     event_type         |-> DEFAULT_EVENT_TYPE,
     event_date         |-> event_date,
     player_name        |-> player.player_data.player_name,
     player_fid         |-> player_fid,
     ranking            |-> player.player_data.ranking,
     rank_inferred      |-> player.rank_inferred,
     damage_points      |-> player.player_data.damage_points,
     ocr_confidence     |-> player.player_data.det.confidence,
     image_source       |-> player.player_data.det.image_source,
     processing_session |-> session_id,
     verification_count |-> 1,
     verified_sessions  |-> << >>,
     data_confidence    |-> 10]

\* one run of the command-line processor for one screenshot of the event
StoreProcessed ==
    /\ work.stage = "none"
    /\ \E player \in ProcessedPlayers, player_fid \in {NoFid, FidStr(101)} :
        /\ ledger' = Append(ledger, ProcessedEventRecord(player, player_fid,
                                        SessionId(PlainEvent, <<1, 0>>), PlainEvent, <<1, 0>>))
        /\ observed' = Observe(observed, ledger, 0, player.player_data,
                               SessionId(PlainEvent, <<1, 0>>))
        /\ issued' = issued \cup {SessionId(PlainEvent, <<1, 0>>)}
        /\ work' = [stage |-> "processed", player |-> player]
    /\ UNCHANGED <<mappings, attendance, attEvent, nUploads, response,
                   roster, changes, today, replay, concVars>>

\* a web upload of what one screenshot shows for the player
UploadRead ==
    /\ nUploads < MaxUploads
    /\ \E u \in ValueUploads :
        ProcessAttendance(u.event_name, u.event_date, 0, u.all_player_data, TRUE)
    /\ UNCHANGED work

NextInferred == StoreProcessed \/ UploadRead

SpecInferred == Init /\ [][NextInferred]_vars

\* --------------------------------------- is_fuzzy_duplicate on two records
FuzzyRecords ==
    {PlayerEntry(n, r, d, 60, FALSE, 1, 10) :
        n \in {NameAb, NameAc, NameAB, NameXy, NameWxyz},
        r \in {None, 1, 2, 3}, d \in {None, 100000, 100500, 300000}}

Compare ==
    /\ work.stage = "none"
    /\ \E data1, data2 \in FuzzyRecords :
        /\ data1.player_name # data2.player_name
        /\ work' = [stage |-> "compared", data1 |-> data1, data2 |-> data2,
                    duplicate |-> IsFuzzyDuplicate(data1, data2)]
    /\ UNCHANGED <<tableVars, replay, concVars>>

NextFuzzy == Compare

SpecFuzzy == Init /\ [][NextFuzzy]_vars

\* ------------------------------- EnhancedOCRProcessor.extract_player_scores
\* one (bbox, text, confidence) of easyocr: kind tells what the text is, a
\* string ("text"), a digit run ("digits", its value) or a "Damage Points:"
\* caption ("caption", its number, None when no number can be parsed); the
\* box is its left edge x, its upper edge top and its lower edge bottom
TextBox(kind, text, value, confidence, x, top, bottom) ==
    [kind |-> kind, text |-> text, value |-> value, confidence |-> confidence,
     x |-> x, top |-> top, bottom |-> bottom]

NameBad == <<"[", "a", "]", "b">>
TextBoxes ==
    {TextBox("text", n, None, c, 20, y, y + 10) :
        n \in {NameAb, NameXy}, c \in {90}, y \in {10, 40, 90}}
    \cup {TextBox("text", NameAb, None, 50, 20, 40, 50),
          TextBox("text", NameBad, None, 90, 20, 40, 50),
          TextBox("text", <<"O", "K">>, None, 90, 20, 180, 200),
          TextBox("digits", << >>, 3, 90, 5, 40, 50),
          TextBox("digits", << >>, 77, 90, 5, 40, 50),
          TextBox("caption", << >>, 100000, 90, 20, 55, 65),
          TextBox("caption", << >>, None, 90, 20, 55, 65)}

Alnum(c) == c \notin {"[", "]", " ", ",", "_", ":"}

\* the pattern ^\[[A-Za-z0-9]{2,4}\][A-Za-z0-9]
is_valid_alliance_name_format(name) ==
    /\ Len(name) >= 1 /\ name[1] = "["
    /\ \E n \in 2..4 :
        /\ Len(name) >= n + 3
        /\ \A k \in 2..(n + 1) : Alnum(name[k])
        /\ name[n + 2] = "]"
        /\ Alnum(name[n + 3])

\* the first text that is a number from 1 to 50, within 50 of the line and
\* left of the name
find_nearby_ranking(texts, player_bbox) ==
    LET at == {j \in 1..Len(texts) :
                  /\ texts[j].kind = "digits" /\ 1 <= texts[j].value /\ texts[j].value <= 50
                  /\ Abs(texts[j].top - player_bbox.top) < 50
                  /\ texts[j].x < player_bbox.x}
    IN  IF at = {} THEN None ELSE texts[First(at)].value

\* the first caption below the name, within 100, whose number parses
find_nearby_damage_score(texts, player_bbox) ==
    LET at == {j \in 1..Len(texts) :
                  /\ texts[j].top > player_bbox.bottom
                  /\ texts[j].top < player_bbox.bottom + 100
                  /\ texts[j].kind = "caption" /\ texts[j].value # None}
    IN  IF at = {} THEN None ELSE texts[First(at)].value

\* max(bbox[2][1]) over all the texts
RECURSIVE MaxBottom(_)
MaxBottom(texts) ==
    IF texts = << >> THEN 0
    ELSE Max(Head(texts).bottom, MaxBottom(Tail(texts)))

\* player_bottom_y > max_y * 0.80
BelowThreshold(player_bottom_y, max_y) == 5 * player_bottom_y > 4 * max_y

RECURSIVE ExtractEntries(_, _, _, _)
ExtractEntries(texts, i, image_name, player_data) ==
    IF i > Len(texts) THEN player_data
    ELSE IF /\ texts[i].kind = "text" /\ texts[i].text # << >>
            /\ texts[i].text[1] = "[" /\ texts[i].confidence > 60
            /\ is_valid_alliance_name_format(texts[i].text)
    THEN ExtractEntries(texts, i + 1, image_name,
             Append(player_data,
                    PlayerEntry(texts[i].text,
                                find_nearby_ranking(texts, texts[i]),
                                find_nearby_damage_score(texts, texts[i]),
                                texts[i].confidence,
                                BelowThreshold(texts[i].bottom, MaxBottom(texts)),
                                image_name, texts[i].top)))
    ELSE ExtractEntries(texts, i + 1, image_name, player_data)

extract_player_scores(ocr_results, image_name) ==
    ExtractEntries(ocr_results, 1, image_name, << >>)

Extract ==
    /\ work.stage = "none"
    /\ \E n \in 0..MaxTexts :
        \E ocr_results \in [1..n -> TextBoxes] :
            work' = [stage |-> "extracted", ocr_results |-> ocr_results,
                     player_data |-> extract_player_scores(ocr_results, 1)]
    /\ UNCHANGED <<tableVars, replay, concVars>>

NextExtract == Extract

SpecExtract == Init /\ [][NextExtract]_vars

\* ------------------------------------------- uploads around a nickname change
\* the bot records that user 101 changed the nickname "foo": a row of
\* nickname_changes (models.py, NicknameChange) and the user's new nickname
Renamed(u) == [u EXCEPT !.nickname = [tag |-> u.nickname.tag, nick |-> "bar"]]

NicknameChanged ==
    /\ changes = << >>
    /\ \E u \in roster :
        /\ changes' = <<[fid |-> u.fid, old_nickname |-> u.nickname,
                         new_nickname |-> Renamed(u).nickname]>>
        /\ roster' = (roster \ {u}) \cup {Renamed(u)}
    /\ UNCHANGED <<ledger, mappings, attendance, today, nUploads, issued, observed,
                   attEvent, response, replay, concVars, work>>

\* uploads of screenshots of one event and day
UploadShot ==
    /\ nUploads < MaxUploads
    /\ \E u \in ValueUploads \cup ListUploads :
        ProcessAttendance(u.event_name, u.event_date, 0, u.all_player_data, TRUE)
    /\ UNCHANGED work

NextReconcile == UploadShot \/ NicknameChanged

SpecReconcile == Init /\ [][NextReconcile]_vars

\* ------------------------------------- uploads whose reports are remembered
\* uploads of one player for an event on day 1, by sessions a second apart;
\* work keeps what each session reported (history)
ReportUploads ==
    {UploadForm(e, <<1, s>>, <<Detected(Foo, r, p, DetA)>>) :
        e \in EventNames, s \in Secs, r \in {None, 1, 2}, p \in {None, 1000, 2600}}

Reports == IF work.stage = "reports" THEN work.reports ELSE {}

UploadReport ==
    /\ nUploads < MaxUploads
    /\ \E u \in ReportUploads :
        /\ ProcessAttendance(u.event_name, u.event_date, 0, u.all_player_data, TRUE)
        /\ work' = [stage |-> "reports",
                    reports |-> Reports \cup
                        {[event_name |-> u.event_name,
                          session_id |-> SessionId(u.event_name, u.event_date),
                          player_data |-> u.all_player_data[1]]}]

NextReports == UploadReport

SpecReports == Init /\ [][NextReports]_vars

\* ------------------------------------------------------------------- claims
Rows == 1..Len(ledger)
SameKey(a, b) ==
    /\ a.event_name = b.event_name
    /\ a.player_name = b.player_name
    /\ DayOf(a.event_date) = DayOf(b.event_date)

SessionSet(e) ==
    {VerifiedSessionsList(e)[k] : k \in 1..Len(VerifiedSessionsList(e))}

\* C2: every EventRecord has verification_count >= 1, equal to the number
\* of distinct session ids held in its verified_sessions.
VerificationCountIsSetSize ==
    \A i \in Rows :
        /\ ledger[i].verification_count >= 1
        /\ ledger[i].verification_count = Cardinality(SessionSet(ledger[i]))

\* C3: a row that N uploads with N distinct session ids reported, each with
\* a score within the tolerance of the stored one, has verification_count N
\* and data_confidence min(2.0, 1.0 + 0.2 * (N - 1)).
ConsensusCountsSessions ==
    \A i \in Rows :
        observed[i].clean =>
            /\ ledger[i].verification_count = observed[i].n
            /\ ledger[i].data_confidence = Min(20, 10 + 2 * (observed[i].n - 1))

\* C4: verification_count never exceeds the number of distinct session ids
\* that created the row or reported an agreeing observation for it.
VerificationPerSession ==
    \A i \in Rows : ledger[i].verification_count <= Cardinality(observed[i].agreed)

\* C5: no two uploads are given the same session id.
SessionIdsUnique == Cardinality(issued) = nUploads

\* C8: every EventRecord's data_confidence lies in [1.0, 2.0] and equals
\* min(2.0, 1.0 + 0.2 * (verification_count - 1)).
DataConfidenceInRange ==
    \A i \in Rows :
        /\ ledger[i].data_confidence >= 10
        /\ ledger[i].data_confidence <= 20
        /\ ledger[i].data_confidence = Min(20, 10 + 2 * (ledger[i].verification_count - 1))
\* a row verified often enough for the cap to bind
ConfidenceCapped == \E i \in Rows : ledger[i].verification_count >= 7

MappingUpsertOnly ==
    /\ [](\A i \in 1..Len(mappings) : mappings[i].times_seen >= 1)
    /\ [][\A i \in 1..Len(mappings) :
            /\ i <= Len(mappings')
            /\ mappings'[i].player_name = mappings[i].player_name
            /\ mappings'[i].times_seen \in {mappings[i].times_seen, mappings[i].times_seen + 1}
            /\ mappings[i].player_fid # UNMATCHED_FID
                  => mappings'[i].player_fid = mappings[i].player_fid]_vars
\* a matched entry seen again, for a name that also has a row stored while
\* the roster did not match it
MappingSeenMatchedAndUnmatched ==
    \E i \in 1..Len(mappings) :
        /\ mappings[i].times_seen >= 2
        /\ mappings[i].player_fid # UNMATCHED_FID
        /\ \E r \in Rows : /\ ledger[r].player_name = mappings[i].player_name
                           /\ ledger[r].player_fid = NoFid

\* what C6 compares of an EventRecord
RecordView(e) ==
    <<e.damage_points, e.ranking, SessionSet(e), e.verification_count, e.data_confidence>>

\* C6: uploads with distinct session ids for one (event, player, day) leave
\* the same EventRecord in whatever order they are applied.
OrderIndependent ==
    replay.done =>
        /\ Len(replay.a) = 1
        /\ Len(replay.b) = 1
        /\ RecordView(replay.a[1]) = RecordView(replay.b[1])

\* the ledger after the two requests' uploads, one after the other
SequentialLedger(first, second) ==
    StoreUploads([EmptyStore EXCEPT !.ledger = seed.ledger, !.mappings = seed.mappings,
                                    !.observed = seed.observed],
                 <<local[first].u, local[second].u>>).ledger

RowsFor(led, player_name) ==
    {i \in 1..Len(led) : /\ led[i].event_name = response.event_name
                         /\ led[i].player_name = player_name
                         /\ DayOf(led[i].event_date) = DayOf(response.event_date)}

Times(list, player_data) ==
    Cardinality({k \in 1..Len(list) : list[k].player_data = player_data})

\* every input record is returned once, matched or unmatched; an unmatched
\* one carries the sentinel id and has its EventRecord
UnmatchedReturned ==
    /\ \A k \in 1..Len(response.player_data_list) :
          Times(response.matched_players, response.player_data_list[k])
            + Times(response.unmatched, response.player_data_list[k]) = 1
    /\ Len(response.matched_players) + Len(response.unmatched)
          = Len(response.player_data_list)
    /\ \A k \in 1..Len(response.unmatched) :
          /\ response.unmatched[k].player_fid = UNMATCHED_FID
          /\ RowsFor(response.stored, response.unmatched[k].player_data.player_name) # {}

\* C11 as stated: each unmatched record of an upload is returned in the
\* unmatched list with the sentinel id, the ledger keeps an EventRecord with
\* a null player id for it, and every input record is in exactly one list.
UnmatchedKeptAsGhost ==
    response.done =>
        /\ UnmatchedReturned
        /\ \A k \in 1..Len(response.unmatched) :
              \A i \in RowsFor(response.stored, response.unmatched[k].player_data.player_name) :
                  response.stored[i].player_fid = NoFid

\* C11 amended: the EventRecord kept for an unmatched record has a null
\* player id when this upload creates it; a record found in the ledger keeps
\* the player id it had.
UnmatchedKeptNullWhenCreated ==
    response.done =>
        /\ UnmatchedReturned
        /\ \A k \in 1..Len(response.unmatched) :
              \A i \in RowsFor(response.stored, response.unmatched[k].player_data.player_name) :
                  IF RowsFor(response.before, response.unmatched[k].player_data.player_name) = {}
                  THEN response.stored[i].player_fid = NoFid
                  ELSE response.stored[i].player_fid = response.before[i].player_fid
\* an upload with an unmatched record that created its EventRecord, after an
\* earlier upload
GhostRecordCreated ==
    /\ response.done
    /\ nUploads >= 2
    /\ \E k \in 1..Len(response.unmatched) :
          /\ RowsFor(response.before, response.unmatched[k].player_data.player_name) = {}
          /\ RowsFor(response.stored, response.unmatched[k].player_data.player_name) # {}
\* C12: the duplicate-resolution pass, run on its own output, returns that
\* output unchanged.
DuplicateResolutionIdempotent ==
    work.stage = "again" =>
        /\ ~work.again.raised
        /\ work.again.players = work.out.players

SetOf(seq) == {seq[k] : k \in 1..Len(seq)}

\* C13: the duplicate-resolution pass returns the same set of surviving
\* records for every order of the same input records.
DuplicateResolutionOrderFree ==
    work.stage = "reordered" =>
        /\ work.other.raised = work.out.raised
        /\ SetOf(work.other.players) = SetOf(work.out.players)

\* what C14 says of the survivor of two colliding records
SurvivorRule(c) ==
    /\ ~c.raised
    /\ c.kept \in {c.new, c.existing}
    /\ IF c.new.is_sticky_card # c.existing.is_sticky_card
       THEN ~c.kept.is_sticky_card
       ELSE /\ c.kept.confidence >= c.new.confidence
            /\ c.kept.confidence >= c.existing.confidence

\* C14: at every collision, exact-name or fuzzy, the survivor is the
\* non-sticky record when exactly one of the two is a sticky card and
\* otherwise the one with the higher confidence; every output record is an
\* input record unmodified.
CollisionSurvivor ==
    work.stage = "resolved" =>
        /\ \A k \in 1..Len(work.out.collisions) : SurvivorRule(work.out.collisions[k])
        /\ ~work.out.raised
        /\ SetOf(work.out.players) \subseteq SetOf(work.input)
Count(seq, x) == Cardinality({k \in 1..Len(seq) : seq[k] = x})

\* the list is the input in the order of (source image, vertical position)
SortedByPosition ==
    /\ Len(work.sorted) = Len(work.input)
    /\ \A x \in SetOf(work.input) : Count(work.sorted, x) = Count(work.input, x)
    /\ \A k \in 1..(Len(work.sorted) - 1) : KeyLessOrEqual(work.sorted[k], work.sorted[k + 1])

\* C15: in the order of (source image, vertical position), a record without
\* a rank gets R+1 when its predecessor has rank R, else R-1 when its
\* successor has rank R and R-1 >= 1, else stays unranked; a filled rank is
\* marked rank_inferred and a rank that was read is not changed.
RanksInferredFromNeighbours ==
    work.stage = "ranked" =>
        /\ SortedByPosition
        /\ Len(work.out) = Len(work.sorted)
        /\ \A i \in 1..Len(work.sorted) :
              IF work.sorted[i].ranking # None
              THEN work.out[i] = work.sorted[i]
              ELSE /\ work.out[i].player_name = work.sorted[i].player_name
                   /\ work.out[i].bbox_y = work.sorted[i].bbox_y
                   /\ IF i > 1 /\ work.out[i - 1].ranking # None
                      THEN /\ work.out[i].ranking = work.out[i - 1].ranking + 1
                           /\ work.out[i].rank_inferred
                      ELSE IF /\ i < Len(work.sorted)
                              /\ work.sorted[i + 1].ranking # None
                              /\ work.sorted[i + 1].ranking - 1 >= 1
                      THEN /\ work.out[i].ranking = work.sorted[i + 1].ranking - 1
                           /\ work.out[i].rank_inferred
                      ELSE /\ work.out[i].ranking = None
                           /\ ~work.out[i].rank_inferred
\* ranks 3, none, 5 from top to bottom, given out of order, become 3, 4, 5
MiddleRankInferred ==
    /\ work.stage = "ranked"
    /\ Len(work.sorted) = 3
    /\ work.input # work.sorted
    /\ <<work.sorted[1].ranking, work.sorted[2].ranking, work.sorted[3].ranking>> = <<3, None, 5>>
    /\ <<work.out[1].ranking, work.out[2].ranking, work.out[3].ranking>> = <<3, 4, 5>>
    /\ work.out[2].rank_inferred
\* the similarities correct_player_name compares with the threshold: the
\* name without its tag against a nickname, with and without the nickname's tag
ReachesThreshold(name, user) ==
    \/ RatioAtLeast(name, user.nickname, 75)
    \/ RatioAtLeast(extract_alliance_tag(name).name,
                    extract_alliance_tag(user.nickname).name, 75)

\* C16: correct_player_name returns a roster match exactly when the best
\* similarity of the detected name with a roster nickname reaches 75, and
\* the match is a user that reaches it; otherwise it returns no match,
\* confidence 0 and the stripped OCR string, tag included.
MatchOnlyAtThreshold ==
    work.stage = "corrected" =>
        LET users == SetOf(work.candidates)
            out == work.out
        IN  IF \E u \in users : ReachesThreshold(out.search_name, u)
            THEN /\ out.matched_user \in users
                 /\ ReachesThreshold(out.search_name, out.matched_user)
                 /\ out.confidence.num >= 75 * out.confidence.den
                 /\ \A u \in users :
                       ~ScoreLess(out.confidence, Ratio(out.search_name, u.nickname))
            ELSE /\ out.matched_user = NoUser
                 /\ out.confidence = NoScore
                 /\ out.corrected_name = Strip(work.detected_name)
\* a name whose best similarity is exactly 75 is matched and rebuilt from
\* the detected tag and the roster nickname
MatchedAtThreshold ==
    /\ work.stage = "corrected"
    /\ work.detected_name = <<"[", "D", "O", "A", "]", "a", "b", "c", "f">>
    /\ work.out.matched_user.fid = 101
    /\ work.out.confidence = [num |-> 600, den |-> 8]
    /\ work.out.corrected_name = <<"[", "D", "O", "A", "]", "a", "b", "c", "d">>
\* C17: when the store of the k-th record of an upload fails, the
\* EventRecords upserted for records 1..k-1 are in the ledger as they were
\* written, and the response tells how many records succeeded and failed.
ProgressCommittedPerRecord ==
    work.stage = "failed" =>
        /\ \A j \in 1..(work.failed_at - 1) :
              \A i \in RowsFor(work.flushed, response.player_data_list[j].player_name) :
                  i <= Len(ledger) /\ ledger[i] = work.flushed[i]
        /\ "summary" \in response.body

WellFormed(ocr_results) == ocr_results \in GoodOutputs

\* C18: an image whose OCR output is empty or malformed yields zero records
\* without failing, and the upload stores the records of its other images.
BadImagesTolerated ==
    work.stage = "images" =>
        \A i \in 1..Len(work.images) :
            ~WellFormed(work.images[i]) =>
                /\ extract_player_scores_from_ocr(work.images[i], ImageName(i))
                      = [raised |-> FALSE, player_data |-> << >>]
                /\ response.status_code = 200
                /\ \A k \in 1..Len(work.images) :
                      LET good == extract_player_scores_from_ocr(work.images[k], ImageName(k))
                      IN  \A r \in 1..Len(good.player_data) :
                              RowsFor(ledger, good.player_data[r].player_name) # {}
Verified(existing_event, session_id) ==
    InList(session_id, VerifiedSessionsList(existing_event))

\* C19: an upload that finds an existing EventRecord adds its session id to
\* the verified set exactly when the id is not there yet and the new
\* observation agrees with the values stored before the upload: scores
\* (zero included) at most 1000 apart, or equal ranks that are both present.
VerifiedExactlyOnAgreement ==
    response.done =>
        \A k \in 1..Len(response.player_data_list) :
            \A i \in RowsFor(response.before, response.player_data_list[k].player_name) :
                (Verified(response.stored[i], response.session_id)
                 /\ ~Verified(response.before[i], response.session_id))
                <=> (/\ ~Verified(response.before[i], response.session_id)
                     /\ \/ ScoresAgree(response.player_data_list[k], response.before[i])
                        \/ RanksAgree(response.player_data_list[k], response.before[i]))
\* the greater of a stored and a reported score, an absent one being no score
MaxScore(stored, reported) ==
    IF stored = None THEN reported
    ELSE IF reported = None THEN stored
    ELSE Max(stored, reported)

\* C20: after every upload the EventRecord's score is the maximum of the
\* scores reported for its key so far (the reported score when the upload
\* creates the record, else the greater of the stored and the reported
\* one), verified or not, so it never decreases.
ScoreIsMaximumReported ==
    response.done =>
        \A k \in 1..Len(response.player_data_list) :
            \A i \in RowsFor(response.stored, response.player_data_list[k].player_name) :
                response.stored[i].damage_points
                    = IF i \in RowsFor(response.before, response.player_data_list[k].player_name)
                      THEN MaxScore(response.before[i].damage_points,
                                    response.player_data_list[k].damage_points)
                      ELSE response.player_data_list[k].damage_points
\* the rank an upsert has to store for a rank read from a screenshot
AdoptedRank(stored, new) ==
    IF new # None /\ (stored = None \/ new < stored) THEN new ELSE stored

\* C21: an upsert adopts the new rank when the stored one is absent or the
\* new one is lower; no inferred rank replaces a directly-read one; and
\* rank_inferred describes the stored rank: once a rank read from a
\* screenshot is adopted the flag is false, otherwise it is unchanged.
RankFlagDescribesStoredRank ==
    response.done =>
        \A k \in 1..Len(response.player_data_list) :
            \A i \in {First(RowsFor(response.before,
                                     response.player_data_list[k].player_name))} \ {0} :
                /\ response.stored[i].ranking
                      = AdoptedRank(response.before[i].ranking,
                                    response.player_data_list[k].ranking)
                /\ response.stored[i].rank_inferred
                      = IF response.stored[i].ranking # response.before[i].ranking
                        THEN FALSE ELSE response.before[i].rank_inferred
\* C22: when mark_attendance_from_scores meets an existing entry for the
\* player's key, the entry keeps the higher of its points and the reported
\* score, and its mark timestamp is set to the time of the call.
AttendanceKeepsHigherAndRefreshes ==
    [][nUploads' = nUploads + 1 /\ response'.done =>
        \A k \in 1..Len(response'.matched_players) :
            \A i \in {FindAttendance(attendance, response'.matched_players[k].player_fid,
                          AttendanceSessionId(response'.event_name, today))} \ {0} :
                /\ attendance'[i].points
                      = Max(attendance[i].points,
                            OrZero(response'.matched_players[k].player_data.damage_points))
                /\ attendance'[i].marked_at = Now(today)]_vars
Similarity(data1, data2, percent) ==
    RatioAtLeast(LowerStr(data1.player_name), LowerStr(data2.player_name), percent)

RanksEqual(data1, data2) ==
    data1.ranking # None /\ data2.ranking # None /\ data1.ranking = data2.ranking

\* C23: two records with different names are the same player exactly when
\* (a) similarity >= 95, or (b) similarity >= 85 and ranks within 1 or scores
\* within 1%, or (c) ranks equal, scores within 1% and similarity >= 70; a
\* missing rank or score is no match.
FuzzyDuplicateRule ==
    work.stage = "compared" =>
        (work.duplicate <=>
            \/ Similarity(work.data1, work.data2, 95)
            \/ /\ Similarity(work.data1, work.data2, 85)
               /\ \/ RankMatch(work.data1.ranking, work.data2.ranking)
                  \/ ScoreMatch(work.data1.damage_points, work.data2.damage_points)
            \/ /\ RanksEqual(work.data1, work.data2)
               /\ ScoreMatch(work.data1.damage_points, work.data2.damage_points)
               /\ Similarity(work.data1, work.data2, 70))
\* the texts of an image that are read as names
IsName(t) ==
    /\ t.kind = "text" /\ t.confidence > 60
    /\ is_valid_alliance_name_format(t.text)

NameBoxes(texts) == SelectSeq(texts, IsName)

\* C24: a name record is flagged as a sticky card exactly when the lower
\* edge of its box is in the bottom 20% of the maximum vertical extent of the
\* name detections of the image; other detections do not move the threshold.
StickyFromNameExtent ==
    work.stage = "extracted" =>
        /\ Len(work.player_data) = Len(NameBoxes(work.ocr_results))
        /\ \A k \in 1..Len(work.player_data) :
              work.player_data[k].is_sticky_card
                  <=> 5 * NameBoxes(work.ocr_results)[k].bottom
                          > 4 * MaxBottom(NameBoxes(work.ocr_results))
\* the columns of an EventRecord an upsert may change
UpsertView(e) ==
    <<e.damage_points, e.ranking, e.ocr_confidence, e.image_source,
      e.verified_sessions, e.verification_count, e.data_confidence>>

\* the step applies the upload of the last response once more: the same
\* session and records, matched to the same users, on the day of the first
\* application
SameUploadAgain ==
    /\ nUploads' = nUploads + 1
    /\ response.done /\ response'.done
    /\ response'.session_id = response.session_id
    /\ response'.event_name = response.event_name
    /\ response'.event_date = response.event_date
    /\ response'.player_data_list = response.player_data_list
    /\ response'.matched_players = response.matched_players
    /\ response'.unmatched = response.unmatched
    /\ \A k \in 1..Len(response.matched_players) :
          FindAttendance(attendance, response.matched_players[k].player_fid,
                         AttendanceSessionId(response.event_name, today)) # 0

\* C25: applying the same upload (same session id, same records) a second
\* time leaves every EventRecord's score, rank, OCR confidence, image
\* source, verified set, verification_count and data_confidence, and every
\* attendance entry's points, as they were after the first application.
UpsertsIdempotent ==
    [][SameUploadAgain =>
        /\ Len(ledger') = Len(ledger)
        /\ \A i \in 1..Len(ledger) : UpsertView(ledger'[i]) = UpsertView(ledger[i])
        /\ Len(attendance') = Len(attendance)
        /\ \A i \in 1..Len(attendance) : attendance'[i].points = attendance[i].points]_vars
KeysUnique(led) ==
    \A i, j \in 1..Len(led) :
        (/\ led[i].event_name = led[j].event_name
         /\ led[i].player_name = led[j].player_name
         /\ DayOf(led[i].event_date) = DayOf(led[j].event_date)) => i = j

\* C26: reconcile_ocr_player_names, run after the ledger commit of every
\* upload, keeps the keys (event_name, player_name, event day) unique when
\* they were unique before the call, and an upload of the screenshot of the
\* last upload once more inserts no EventRecord.
ReconcileKeepsKeysUnique ==
    [][nUploads' = nUploads + 1 /\ response'.done =>
        /\ KeysUnique(response'.stored) => KeysUnique(ledger')
        /\ (/\ response.done
            /\ response'.session_id = response.session_id
            /\ response'.player_data_list = response.player_data_list)
           => Len(ledger') = Len(ledger)]_vars
Agrees(player_data, existing_event) ==
    ScoresAgree(player_data, existing_event) \/ RanksAgree(player_data, existing_event)

\* C27 as stated: every session id in an EventRecord's verified set
\* reported an observation that agrees with the score and rank the record
\* stores now.
VerifiedAgreeWithStoredValues ==
    \A i \in 1..Len(ledger) :
        \A k \in 1..Len(VerifiedSessionsList(ledger[i])) :
            \E report \in Reports :
                /\ report.event_name = ledger[i].event_name
                /\ report.session_id = VerifiedSessionsList(ledger[i])[k]
                /\ \/ Agrees(report.player_data, ledger[i])
                   \/ /\ report.player_data.ranking = ledger[i].ranking
                      /\ report.player_data.damage_points = ledger[i].damage_points

\* the upload found the row i of the ledger for its k-th record
Found(k, i) ==
    /\ response.done
    /\ k \in 1..Len(response.player_data_list)
    /\ i = First(RowsFor(response.before, response.player_data_list[k].player_name))
    /\ i # 0

\* C27, amended: an upload whose observation does not agree with the values
\* stored before it leaves the record's verified set, verification_count
\* and data_confidence as they were, also when its score or rank is adopted.
DisagreeingUploadKeepsVerification ==
    response.done =>
        \A k \in 1..Len(response.player_data_list), i \in 1..Len(response.before) :
            (Found(k, i) /\ ~Agrees(response.player_data_list[k], response.before[i]))
            => /\ response.stored[i].verified_sessions = response.before[i].verified_sessions
               /\ response.stored[i].verification_count = response.before[i].verification_count
               /\ response.stored[i].data_confidence = response.before[i].data_confidence

AdoptedWithoutAgreement ==
    /\ response.done
    /\ \E k \in 1..Len(response.player_data_list), i \in 1..Len(response.before) :
        /\ Found(k, i)
        /\ ~Agrees(response.player_data_list[k], response.before[i])
        /\ response.stored[i].damage_points # response.before[i].damage_points
        /\ response.stored[i].verification_count = 1
\* C28: after an upload, the EventRecord of every record it matched to a
\* roster id carries that id, created or updated, and so does the
\* NameMapping entry of the name.
MatchedRecordCarriesRosterId ==
    response.done =>
        \A k \in 1..Len(response.matched_players) :
            /\ \A i \in RowsFor(response.stored,
                                response.matched_players[k].player_data.player_name) :
                  response.stored[i].player_fid = response.matched_players[k].player_fid
            /\ \A j \in 1..Len(mappings) :
                  mappings[j].player_name = response.matched_players[k].player_data.player_name
                  => mappings[j].player_fid = response.matched_players[k].player_fid
Rankings2(players) == [k \in 1..Len(players) |-> players[k].ranking]

\* C29: rank inference reaches a fixed point in one pass: a second pass over
\* its output changes no rank, and after one pass no record is unranked
\* while its predecessor has a rank or its successor has a rank above 1.
RankInferenceFixedPoint ==
    work.stage = "ranked" =>
        /\ Rankings2(InferMissingRanks(work.out)) = Rankings2(work.out)
        /\ \A i \in 1..Len(work.out) :
              work.out[i].ranking = None =>
                  /\ i > 1 => work.out[i - 1].ranking = None
                  /\ i < Len(work.out) => work.out[i + 1].ranking \in {None, 1}
\* C30: the duplicate-resolution pass of process_event_screenshots ends
\* without raising for every list of records, also when a record that
\* collides fuzzily with an earlier one has no score or no rank.
ResolutionNeverRaises ==
    work.stage = "resolved" =>
        /\ ~work.out.raised
        /\ \A k \in 1..Len(work.out.collisions) : ~work.out.collisions[k].raised
====
